---- MODULE Spec2Model ----
(***************************************************************************)
(* Research-task tracker: one SQLite table (app/db/models.py) written by   *)
(* two front-ends, the FastAPI application (app/main.py) and the MCP tool  *)
(* server (app/mcp_server.py), and by the background write-back each       *)
(* create schedules.                                                       *)
(*                                                                         *)
(* Granularity.  Every handler opens its own SQLAlchemy session; one step  *)
(* of the model is one database round trip of a handler (query, commit,    *)
(* refresh) together with the Python code up to the next round trip.       *)
(* FastAPI runs the sync endpoints and the sync background task on pool    *)
(* threads, so HTTP handlers interleave freely.  The MCP server is one     *)
(* asyncio event loop whose handlers and background coroutine contain no   *)
(* await: inside that process they run one at a time (variable loop), but  *)
(* the HTTP process shares the same database file and interleaves with     *)
(* them between round trips.                                               *)
(*                                                                         *)
(* Session semantics.  A session keeps the column values it loaded.  At    *)
(* commit the unit of work compares every assigned attribute with the      *)
(* loaded value and puts only the columns with a net change into           *)
(* UPDATE ... WHERE id = ?; with no net change no UPDATE is emitted.       *)
(***************************************************************************)
EXTENDS Naturals, Integers, FiniteSets

MaxTasks == 2
MaxThreads == 1
MaxRequests == 2

\* Python None: an absent argument, a failed LLM call, a NULL column.
None == "<None>"
\* arguments.get("task_id") of a call without task_id.
NoId == -1
Fallback == "LLM did not return a result."

VARIABLES
  store,      \* table research_tasks: a set of rows
  now,        \* the clock datetime.utcnow reads at insert
  bg,         \* per task id: the write-back scheduled by its create
  th,         \* HTTP pool threads, each running at most one request handler
  loop,       \* the MCP event loop: idle, or the handler / coroutine it runs
  out,        \* the response emitted by the last step
  nReq,       \* number of create and update requests admitted so far
  budget,     \* number of create and update requests the clients send in all
  nCreated,   \* history: number of inserts committed
  birth,      \* history: id, query and timestamp of every insert
  lastStatus, \* history: status given by the last committed writer that gave one
  patched,    \* history: a direct update of the task has committed
  lastResult  \* history: result given by the last committed writer that gave one

vars == <<store, now, bg, th, loop, out, nReq, budget, nCreated, birth, lastStatus, lastResult,
          patched>>
hist == <<nCreated, birth, lastStatus, lastResult, patched>>

Threads == 1..MaxThreads
TaskIds == 1..MaxTasks

\* Inputs the clients send.
QueryInputs == {None, "", "q"}
StatusInputs == {None, "pending", "completed"}
ResultInputs == {None, "", "X"}
ContentInputs == {None, "", "c"}
HttpIdInputs == 0..MaxTasks
McpIdInputs == {NoId} \cup HttpIdInputs
\* What OllamaClient.generate returns: None on any failure, else data["response"].
LlmOutputs == {None, "R"}

\* Python truthiness of an Optional[str].
Truthy(v) == v # None /\ v # ""
\* Python truthiness of the task_id argument (None and 0 are falsy).
TruthyId(i) == i # NoId /\ i # 0

----------------------------------------------------------------------------
\* The table.

Ids(s) == {r.id : r \in s}

MaxId(s) == IF s = {} THEN 0 ELSE CHOOSE i \in Ids(s) : \A j \in Ids(s) : j <= i

\* Fault variant: the largest rowid is handed out again.
NextIdReused(s) == IF s = {} THEN 1 ELSE MaxId(s)
\* INTEGER PRIMARY KEY: the rowid SQLite assigns is the largest one plus one.
NextId(s) == MaxId(s) + 1

\* Fault variant: the row is inserted as completed.
NewTaskCompleted(s, q, t) ==
  [id |-> NextId(s), query |-> q, status |-> "completed", result |-> None, timestamp |-> t]
\* ResearchTaskORM(query=..., status="pending", result=None); db.add; db.commit.
NewTask(s, q, t) ==
  [id |-> NextId(s), query |-> q, status |-> "pending", result |-> None, timestamp |-> t]

\* Fault variant: the query without its filter.
LookupUnfiltered(s, id) == s
\* db.query(ResearchTaskORM).filter(ResearchTaskORM.id == task_id).first()
Lookup(s, id) == {r \in s : r.id = id}

\* db.commit() of a session that loaded `loaded` and whose object now holds `obj`:
\* UPDATE research_tasks SET <columns with a net change> WHERE id = ?
Commit(s, id, loaded, obj) ==
  {IF r.id = id
     THEN [r EXCEPT !.status = IF obj.status # loaded.status THEN obj.status ELSE @,
                    !.result = IF obj.result # loaded.result THEN obj.result ELSE @]
     ELSE r : r \in s}

\* Fault variant: the adapter's answer is stored as it is.
OrFallbackDropped(text) == text
\* result or "LLM did not return a result."
OrFallback(text) == IF Truthy(text) THEN text ELSE Fallback

\* if update.status is not None: task.status = update.status   (main.py)
HttpAssign(given, current) == IF given # None THEN given ELSE current
\* if status: task.status = status                             (mcp_server.py)
McpAssign(given, current) == IF Truthy(given) THEN given ELSE current

----------------------------------------------------------------------------
\* Handler and response records.

\* rid: the id the request names; tid: the id of the loaded task object;
\* status, result: the arguments; lstatus, lresult: the values the session loaded.
Idle ==
  [pc |-> "idle", rid |-> 0, tid |-> 0, query |-> None, status |-> None,
   result |-> None, lstatus |-> None, lresult |-> None]

NoOut ==
  [op |-> "none", api |-> "none", kind |-> "none", arg |-> None, id |-> 0,
   status |-> None, result |-> None, rows |-> {}]

NoBg == [pc |-> "none", owner |-> "none", lstatus |-> None, lresult |-> None]

Start ==
  /\ store = {}
  /\ now = 1
  /\ bg = [i \in TaskIds |-> NoBg]
  /\ th = [t \in Threads |-> Idle]
  /\ loop = Idle
  /\ out = NoOut
  /\ nReq = 0
  /\ nCreated = 0
  /\ birth = {}
  /\ lastStatus = [i \in TaskIds |-> None]
  /\ lastResult = [i \in TaskIds |-> None]
  /\ patched = [i \in TaskIds |-> FALSE]

\* The clients send at most MaxRequests create and update requests.
Init == Start /\ budget = MaxRequests
\* The clients send one request more.
InitWide == Start /\ budget = MaxRequests + 1

\* History kept at an insert.
Born(r) ==
  /\ nCreated' = nCreated + 1
  /\ birth' = birth \cup {[id |-> r.id, query |-> r.query, timestamp |-> r.timestamp]}
  /\ lastStatus' = [lastStatus EXCEPT ![r.id] = "pending"]
  /\ lastResult' = [lastResult EXCEPT ![r.id] = None]
  /\ UNCHANGED patched

\* History kept at the commit of a direct update; gs, gr: the code took the
\* argument as given.
Patched(id, gs, gr, status, result) ==
  /\ lastStatus' = [lastStatus EXCEPT ![id] = IF gs THEN status ELSE @]
  /\ lastResult' = [lastResult EXCEPT ![id] = IF gr THEN result ELSE @]
  /\ patched' = [patched EXCEPT ![id] = TRUE]
  /\ UNCHANGED <<nCreated, birth>>

\* History kept at the commit of a write-back.
WrittenBack(id, result) ==
  /\ lastStatus' = [lastStatus EXCEPT ![id] = "completed"]
  /\ lastResult' = [lastResult EXCEPT ![id] = result]
  /\ UNCHANGED <<nCreated, birth, patched>>

----------------------------------------------------------------------------
\* app/main.py: the FastAPI application.

\* .first(): the first row of the result.
First(rows) == CHOOSE r \in rows : \A x \in rows : r.id <= x.id

\* POST /research without a query string: the request model rejects it (422).
main_create_invalid ==
  /\ out' = [NoOut EXCEPT !.op = "create", !.api = "http", !.kind = "validation_error",
                          !.arg = None]
  /\ UNCHANGED <<budget, store, now, nReq, bg, th, loop, hist>>

\* POST /research: db.add(task); db.commit().
main_create_commit(t, q) ==
  /\ nReq < budget
  /\ nReq' = nReq + 1
  /\ th[t].pc = "idle"
  /\ q # None
  /\ Cardinality(store) < MaxTasks
  /\ LET r == NewTask(store, q, now) IN
       /\ store' = store \cup {r}
       /\ th' = [th EXCEPT ![t] = [Idle EXCEPT !.pc = "create_refresh", !.tid = r.id,
                                               !.query = q]]
       /\ Born(r)
  /\ now' = now + 1
  /\ out' = NoOut
  /\ UNCHANGED <<budget, bg, loop>>

\* POST /research: db.refresh(task); background_tasks.add_task(...); the response.
main_create_respond(t) ==
  /\ th[t].pc = "create_refresh"
  /\ LET r == First(Lookup(store, th[t].tid)) IN
       /\ bg' = [bg EXCEPT ![r.id] = [NoBg EXCEPT !.pc = "scheduled", !.owner = "http"]]
       /\ out' = [NoOut EXCEPT !.op = "create", !.api = "http", !.kind = "ok",
                               !.arg = th[t].query, !.id = r.id, !.status = r.status,
                               !.result = r.result]
  /\ th' = [th EXCEPT ![t] = Idle]
  /\ UNCHANGED <<budget, store, now, nReq, loop, hist>>

\* llm_generate_scraping_strategy: the query of the background task's own session.
llm_generate_scraping_strategy_query(i) ==
  /\ bg[i].pc = "scheduled"
  /\ bg[i].owner = "http"
  /\ LET rows == Lookup(store, i) IN
       bg' = [bg EXCEPT ![i] = IF rows = {}
                                 THEN [@ EXCEPT !.pc = "done"]
                                 ELSE [@ EXCEPT !.pc = "loaded",
                                                !.lstatus = First(rows).status,
                                                !.lresult = First(rows).result]]
  /\ out' = NoOut
  /\ UNCHANGED <<budget, store, now, nReq, th, loop, hist>>

\* llm_generate_scraping_strategy: generate, assign result and status, commit.
llm_generate_scraping_strategy_commit(i, text) ==
  /\ bg[i].pc = "loaded"
  /\ bg[i].owner = "http"
  /\ store' = Commit(store, i, [status |-> bg[i].lstatus, result |-> bg[i].lresult],
                     [status |-> "completed", result |-> OrFallback(text)])
  /\ bg' = [bg EXCEPT ![i] = [@ EXCEPT !.pc = "done"]]
  /\ WrittenBack(i, OrFallback(text))
  /\ out' = NoOut
  /\ UNCHANGED <<budget, now, nReq, th, loop>>

\* GET /research.
get_research_tasks ==
  /\ out' = [NoOut EXCEPT !.op = "list", !.api = "http", !.kind = "ok", !.rows = store]
  /\ UNCHANGED <<budget, store, now, nReq, bg, th, loop, hist>>

\* PATCH /research/{task_id}: the task is not there, 404.
main_update_not_found(id) ==
  /\ Lookup(store, id) = {}
  /\ out' = [NoOut EXCEPT !.op = "update", !.api = "http", !.kind = "not_found",
                          !.id = id]
  /\ UNCHANGED <<budget, store, now, nReq, bg, th, loop, hist>>

\* PATCH /research/{task_id}: the query finds the task.
main_update_query(t, id, status, result) ==
  /\ nReq < budget
  /\ nReq' = nReq + 1
  /\ th[t].pc = "idle"
  /\ Lookup(store, id) # {}
  /\ LET r == First(Lookup(store, id)) IN
       th' = [th EXCEPT ![t] = [Idle EXCEPT !.pc = "update_commit", !.rid = id,
                                            !.tid = r.id,
                                            !.status = status, !.result = result,
                                            !.lstatus = r.status, !.lresult = r.result]]
  /\ out' = NoOut
  /\ UNCHANGED <<budget, store, now, bg, loop, hist>>

\* PATCH /research/{task_id}: the two conditional assignments and db.commit().
main_update_commit(t) ==
  /\ th[t].pc = "update_commit"
  /\ LET h == th[t] IN
       /\ store' = Commit(store, h.tid, [status |-> h.lstatus, result |-> h.lresult],
                          [status |-> HttpAssign(h.status, h.lstatus),
                           result |-> HttpAssign(h.result, h.lresult)])
       /\ Patched(h.tid, h.status # None, h.result # None, h.status, h.result)
  /\ th' = [th EXCEPT ![t] = [Idle EXCEPT !.pc = "update_refresh", !.tid = th[t].tid]]
  /\ out' = NoOut
  /\ UNCHANGED <<budget, now, nReq, bg, loop>>

\* PATCH /research/{task_id}: db.refresh(task) and the response.
main_update_respond(t) ==
  /\ th[t].pc = "update_refresh"
  /\ LET r == First(Lookup(store, th[t].tid)) IN
       out' = [NoOut EXCEPT !.op = "update", !.api = "http", !.kind = "ok", !.id = r.id,
                            !.status = r.status, !.result = r.result]
  /\ th' = [th EXCEPT ![t] = Idle]
  /\ UNCHANGED <<budget, store, now, nReq, bg, loop, hist>>

\* POST /analyze: no content string, 422; else the LLM's text or the fallback.
main_analyze_content(content, text) ==
  /\ out' = IF content = None
              THEN [NoOut EXCEPT !.op = "analyze", !.api = "http",
                                 !.kind = "validation_error", !.arg = content]
              ELSE [NoOut EXCEPT !.op = "analyze", !.api = "http", !.kind = "ok",
                                 !.arg = content, !.result = OrFallback(text)]
  /\ UNCHANGED <<budget, store, now, nReq, bg, th, loop, hist>>

----------------------------------------------------------------------------
\* app/mcp_server.py: the MCP tool server.  Every handler needs the event loop.

\* create_research_task: "if not query" returns "Error: query is required".
mcp_create_invalid(q) ==
  /\ loop.pc = "idle"
  /\ ~Truthy(q)
  /\ out' = [NoOut EXCEPT !.op = "create", !.api = "mcp", !.kind = "validation_error",
                          !.arg = q]
  /\ UNCHANGED <<budget, store, now, nReq, bg, th, loop, hist>>

\* create_research_task: db.add(task); db.commit().
mcp_create_commit(q) ==
  /\ nReq < budget
  /\ nReq' = nReq + 1
  /\ loop.pc = "idle"
  /\ Truthy(q)
  /\ Cardinality(store) < MaxTasks
  /\ LET r == NewTask(store, q, now) IN
       /\ store' = store \cup {r}
       /\ loop' = [Idle EXCEPT !.pc = "create_refresh", !.tid = r.id, !.query = q]
       /\ Born(r)
  /\ now' = now + 1
  /\ out' = NoOut
  /\ UNCHANGED <<budget, bg, th>>

\* create_research_task: db.refresh(task); asyncio.create_task(...); the text block.
mcp_create_respond ==
  /\ loop.pc = "create_refresh"
  /\ LET r == First(Lookup(store, loop.tid)) IN
       /\ bg' = [bg EXCEPT ![r.id] = [NoBg EXCEPT !.pc = "scheduled", !.owner = "mcp"]]
       /\ out' = [NoOut EXCEPT !.op = "create", !.api = "mcp", !.kind = "ok",
                               !.arg = loop.query, !.id = r.id, !.status = r.status]
  /\ loop' = Idle
  /\ UNCHANGED <<budget, store, now, nReq, th, hist>>

\* generate_llm_response: the coroutine gets the loop and queries the task.
generate_llm_response_query(i) ==
  /\ loop.pc = "idle"
  /\ bg[i].pc = "scheduled"
  /\ bg[i].owner = "mcp"
  /\ LET rows == Lookup(store, i) IN
       IF rows = {}
         THEN /\ bg' = [bg EXCEPT ![i] = [@ EXCEPT !.pc = "done"]]
              /\ loop' = loop
         ELSE /\ bg' = [bg EXCEPT ![i] = [@ EXCEPT !.pc = "loaded",
                                                   !.lstatus = First(rows).status,
                                                   !.lresult = First(rows).result]]
              /\ loop' = [Idle EXCEPT !.pc = "wb", !.tid = i]
  /\ out' = NoOut
  /\ UNCHANGED <<budget, store, now, nReq, th, hist>>

\* generate_llm_response: generate, assign result and status, commit.
generate_llm_response_commit(i, text) ==
  /\ loop.pc = "wb"
  /\ loop.tid = i
  /\ bg[i].pc = "loaded"
  /\ store' = Commit(store, i, [status |-> bg[i].lstatus, result |-> bg[i].lresult],
                     [status |-> "completed", result |-> OrFallback(text)])
  /\ bg' = [bg EXCEPT ![i] = [@ EXCEPT !.pc = "done"]]
  /\ WrittenBack(i, OrFallback(text))
  /\ loop' = Idle
  /\ out' = NoOut
  /\ UNCHANGED <<budget, now, nReq, th>>

\* list_research_tasks: one line "ID, Query, Status" per row.
list_research_tasks ==
  /\ loop.pc = "idle"
  /\ out' = [NoOut EXCEPT !.op = "list", !.api = "mcp", !.kind = "ok",
               !.rows = {[id |-> r.id, query |-> r.query, status |-> r.status] : r \in store}]
  /\ UNCHANGED <<budget, store, now, nReq, bg, th, loop, hist>>

\* update_research_task: "if not task_id" returns "Error: task_id is required".
mcp_update_invalid(id) ==
  /\ loop.pc = "idle"
  /\ ~TruthyId(id)
  /\ out' = [NoOut EXCEPT !.op = "update", !.api = "mcp", !.kind = "validation_error",
                          !.id = id]
  /\ UNCHANGED <<budget, store, now, nReq, bg, th, loop, hist>>

\* update_research_task: the task is not there, "Task <id> not found".
mcp_update_not_found(id) ==
  /\ loop.pc = "idle"
  /\ TruthyId(id)
  /\ Lookup(store, id) = {}
  /\ out' = [NoOut EXCEPT !.op = "update", !.api = "mcp", !.kind = "not_found",
                          !.id = id]
  /\ UNCHANGED <<budget, store, now, nReq, bg, th, loop, hist>>

\* update_research_task: the query finds the task.
mcp_update_query(id, status, result) ==
  /\ nReq < budget
  /\ nReq' = nReq + 1
  /\ loop.pc = "idle"
  /\ TruthyId(id)
  /\ Lookup(store, id) # {}
  /\ LET r == First(Lookup(store, id)) IN
       loop' = [Idle EXCEPT !.pc = "update_commit", !.rid = id, !.tid = r.id,
                            !.status = status, !.result = result,
                            !.lstatus = r.status, !.lresult = r.result]
  /\ out' = NoOut
  /\ UNCHANGED <<budget, store, now, bg, th, hist>>

\* update_research_task: the two conditional assignments and db.commit().
mcp_update_commit ==
  /\ loop.pc = "update_commit"
  /\ store' = Commit(store, loop.tid, [status |-> loop.lstatus, result |-> loop.lresult],
                     [status |-> McpAssign(loop.status, loop.lstatus),
                      result |-> McpAssign(loop.result, loop.lresult)])
  /\ Patched(loop.tid, Truthy(loop.status), Truthy(loop.result), loop.status, loop.result)
  /\ loop' = [Idle EXCEPT !.pc = "update_refresh", !.tid = loop.tid]
  /\ out' = NoOut
  /\ UNCHANGED <<budget, now, nReq, bg, th>>

\* update_research_task: task.status, expired by the commit, is loaded again for
\* the text block.
mcp_update_respond ==
  /\ loop.pc = "update_refresh"
  /\ LET r == First(Lookup(store, loop.tid)) IN
       out' = [NoOut EXCEPT !.op = "update", !.api = "mcp", !.kind = "ok", !.id = r.id,
                            !.status = r.status]
  /\ loop' = Idle
  /\ UNCHANGED <<budget, store, now, nReq, bg, th, hist>>

\* analyze_content: "if not content" returns "Error: content is required".
mcp_analyze_content(content, text) ==
  /\ loop.pc = "idle"
  /\ out' = IF ~Truthy(content)
              THEN [NoOut EXCEPT !.op = "analyze", !.api = "mcp",
                                 !.kind = "validation_error", !.arg = content]
              ELSE [NoOut EXCEPT !.op = "analyze", !.api = "mcp", !.kind = "ok",
                                 !.arg = content, !.result = OrFallback(text)]
  /\ UNCHANGED <<budget, store, now, nReq, bg, th, loop, hist>>

----------------------------------------------------------------------------

Next ==
  \/ main_create_invalid
  \/ \E t \in Threads, q \in QueryInputs : main_create_commit(t, q)
  \/ \E t \in Threads : main_create_respond(t)
  \/ \E i \in TaskIds : llm_generate_scraping_strategy_query(i)
  \/ \E i \in TaskIds, text \in LlmOutputs : llm_generate_scraping_strategy_commit(i, text)
  \/ get_research_tasks
  \/ \E id \in HttpIdInputs : main_update_not_found(id)
  \/ \E t \in Threads, id \in HttpIdInputs, s \in StatusInputs, r \in ResultInputs :
       main_update_query(t, id, s, r)
  \/ \E t \in Threads : main_update_commit(t)
  \/ \E t \in Threads : main_update_respond(t)
  \/ \E c \in ContentInputs, text \in LlmOutputs : main_analyze_content(c, text)
  \/ \E q \in QueryInputs : mcp_create_invalid(q)
  \/ \E q \in QueryInputs : mcp_create_commit(q)
  \/ mcp_create_respond
  \/ \E i \in TaskIds : generate_llm_response_query(i)
  \/ \E i \in TaskIds, text \in LlmOutputs : generate_llm_response_commit(i, text)
  \/ list_research_tasks
  \/ \E id \in McpIdInputs : mcp_update_invalid(id)
  \/ \E id \in McpIdInputs : mcp_update_not_found(id)
  \/ \E id \in McpIdInputs, s \in StatusInputs, r \in ResultInputs :
       mcp_update_query(id, s, r)
  \/ mcp_update_commit
  \/ mcp_update_respond
  \/ \E c \in ContentInputs, text \in LlmOutputs : mcp_analyze_content(c, text)

Spec == Init /\ [][Next]_vars
WideSpec == InitWide /\ [][Next]_vars

\* Scheduling: a handler that has started runs to its end, a pool thread runs
\* the background task FastAPI queued, and the event loop, which serves its
\* ready queue in order, gets to the coroutine asyncio.create_task queued.
\* Nothing obliges a client to send another request.
Fairness ==
  /\ \A t \in Threads : WF_vars(main_create_respond(t))
  /\ \A t \in Threads : WF_vars(main_update_commit(t))
  /\ \A t \in Threads : WF_vars(main_update_respond(t))
  /\ \A i \in TaskIds : WF_vars(llm_generate_scraping_strategy_query(i))
  /\ \A i \in TaskIds : WF_vars(\E text \in LlmOutputs :
                                  llm_generate_scraping_strategy_commit(i, text))
  /\ WF_vars(mcp_create_respond)
  /\ WF_vars(mcp_update_commit)
  /\ WF_vars(mcp_update_respond)
  /\ \A i \in TaskIds : SF_vars(generate_llm_response_query(i))
  /\ \A i \in TaskIds : WF_vars(\E text \in LlmOutputs :
                                  generate_llm_response_commit(i, text))

FairWideSpec == WideSpec /\ Fairness

----------------------------------------------------------------------------
\* Properties.

Handlers == {th[t] : t \in Threads} \cup {loop}

\* No writer of task i is between its query and its commit, and the write-back
\* of task i has committed.
Quiescent(i) ==
  /\ bg[i].pc = "done"
  /\ \A h \in Handlers : ~(h.pc = "update_commit" /\ h.tid = i)

\* The step inserted exactly one row, for the create handler now in state h.
InsertedFor(h) ==
  \E r \in store' :
    /\ r \notin store
    /\ store' = store \cup {r}
    /\ r.id \notin Ids(store)
    /\ r.id = h.tid
    /\ r.query = h.query
    /\ r.status = "pending"
    /\ r.result = None

CreateStepInserts ==
  /\ \A t \in Threads :
       (th[t].pc = "idle" /\ th'[t].pc = "create_refresh") => InsertedFor(th'[t])
  /\ (loop.pc = "idle" /\ loop'.pc = "create_refresh") => InsertedFor(loop')
  /\ Ids(store') # Ids(store) =>
       \/ \E t \in Threads : th[t].pc = "idle" /\ th'[t].pc = "create_refresh"
       \/ loop.pc = "idle" /\ loop'.pc = "create_refresh"

\* A create with a non-empty query is never answered with a validation error.
NonEmptyCreateAccepted ==
  (out.op = "create" /\ out.kind = "validation_error") => ~Truthy(out.arg)

CreateResponsePending ==
  (out.op = "create" /\ out.kind = "ok") => (out.status = "pending" /\ out.result = None)

\* The create response is the row as db.refresh read it, at a moment when the
\* write-back is only being scheduled; it differs from pending / null only by
\* what a direct update of the new id has committed since the insert.
CreateResponseRefreshed ==
  (out.op = "create" /\ out.kind = "ok") =>
    /\ bg[out.id].pc = "scheduled"
    /\ \E r \in store :
         /\ r.id = out.id
         /\ r.query = out.arg
         /\ r.status = out.status
         /\ out.api = "http" => r.result = out.result
    /\ (out.status # "pending" \/ out.result # None) => patched[out.id]

C2_EmptyQueryRejected ==
  /\ \A r \in store : r.query # ""
  /\ (out.op = "create" /\ ~Truthy(out.arg)) => out.kind = "validation_error"

\* C3: in the state right after a write-back commits, the task has status
\* "completed" and its result is the LLM's text, or the fallback string when
\* the adapter returned nothing; never null.
C3_WriteBackLeavesCompleted ==
  [][\A i \in TaskIds :
       (bg[i].pc = "loaded" /\ bg'[i].pc = "done") =>
         \E r \in store' :
           /\ r.id = i
           /\ r.status = "completed"
           /\ r.result # None
           /\ r.result = lastResult'[i]]_vars

\* The commit step of the direct update h set every argument given and left the
\* rest of the table as it was.
UpdateApplied(h) ==
  /\ Ids(store') = Ids(store)
  /\ Cardinality(store') = Cardinality(store)
  /\ \A r \in store : \E r2 \in store' :
       /\ r2.id = r.id
       /\ r2.query = r.query
       /\ r2.timestamp = r.timestamp
       /\ r.id # h.tid => r2 = r
       /\ r.id = h.tid =>
            /\ r2.status = (IF h.status # None THEN h.status ELSE r.status)
            /\ r2.result = (IF h.result # None THEN h.result ELSE r.result)

\* C4: a direct update, on either front-end, sets each of status / result the
\* caller gave to the given string, whatever it is, and leaves the fields not
\* given, id, query, timestamp and every other task unchanged.
C4_UpdateSetsGivenFields ==
  [][/\ \A t \in Threads :
          (th[t].pc = "update_commit" /\ th'[t].pc = "update_refresh") =>
            UpdateApplied(th[t])
     /\ (loop.pc = "update_commit" /\ loop'.pc = "update_refresh") =>
          UpdateApplied(loop)]_vars

\* An update that names an id not in the store changes nothing, and no handler
\* goes on to load a task for it.
AbsentIdUntouched ==
  /\ (out'.op = "update" /\ out'.kind # "ok") =>
       (store' = store /\ bg' = bg /\ th' = th /\ loop' = loop)
  /\ \A t \in Threads :
       (th[t].pc = "idle" /\ th'[t].pc = "update_commit") =>
         (th'[t].rid \in Ids(store) /\ th'[t].tid = th'[t].rid)
  /\ (loop.pc = "idle" /\ loop'.pc = "update_commit") =>
       (loop'.rid \in Ids(store) /\ loop'.tid = loop'.rid)
  /\ (out'.op = "update" /\ out'.kind = "ok") => out'.id \in Ids(store)

C7_EventuallyCompleted ==
  \A i \in TaskIds :
    [](bg[i].pc = "scheduled" =>
         <>(\E r \in store : r.id = i /\ r.status = "completed" /\ r.result # None))

\* C8: when a direct update and the write-back of a task race, each field ends
\* with the value of the writer that committed last among those that gave it.
\* Stated for the runs of at most two requests: one create, whose write-back is
\* the one writer, and one direct update, the other.
C8_LastCommitWinsPerField ==
  \A r \in store :
    (Quiescent(r.id) /\ nReq <= 2 /\ nCreated = 1) =>
      (r.status = lastStatus[r.id] /\ r.result = lastResult[r.id])

\* C9: analyze rejects empty content with a validation error on both
\* front-ends; for non-empty content it returns the LLM's text or the fallback.
C9_AnalyzeRejectsEmpty ==
  out.op = "analyze" =>
    IF Truthy(out.arg)
      THEN out.kind = "ok" /\ Truthy(out.result)
      ELSE out.kind = "validation_error"

\* C10: once the result of a task is non-null no step makes it null again, and
\* the result is null only while neither a write-back nor a result-setting
\* update of the task has committed.
C10_ResultNeverBackToNull ==
  [][/\ \A r \in store : r.result # None =>
          \A r2 \in store' : r2.id = r.id => r2.result # None
     /\ \A r \in store' :
          r.result = None => (bg'[r.id].pc # "done" /\ lastResult'[r.id] = None)]_vars

C10_Witness ==
  \E r \in store :
    /\ r.result = "X" /\ r.status = "pending"
    /\ bg[r.id].pc = "loaded" /\ bg[r.id].lresult = None

====
